---- MODULE Spec2Model ----
(***************************************************************************)
(* User and group administration views (websauna.system.user.adminviews)   *)
(* and the registration / login form schemas (pyramid_web20.schemas).      *)
(*                                                                         *)
(* Requests are handled one at a time (synchronous request/response), so   *)
(* every view is one atomic action.  What a request did is appended to     *)
(* `log`: the events handed to registry.notify (each with the user record  *)
(* as a listener reads it at that moment), the flash messages, the         *)
(* response, and the order of the effects.                                 *)
(***************************************************************************)
EXTENDS Integers, Sequences, FiniteSets, TLC

VARIABLES
    users,      \* the user table: user id -> record
    perms,      \* permissions the authorization policy grants the principal
    log,        \* one entry per handled admin request, oldest first
    payload,    \* form payload handed to a registration / login schema
    result      \* outcome of the schema's deserialization of `payload`

vars == <<users, perms, log, payload, result>>

-----------------------------------------------------------------------------
(* Bounds *)

MaxRequests == 1        \* admin requests per behaviour, any request
MaxEdits == 2           \* user edits in a row, in the behaviours of edits only
MaxEmailLen == 6        \* longest e-mail string handed to a schema
MaxPasswordLen == 7     \* longest password handed to a schema

-----------------------------------------------------------------------------
(* Values *)

UserIds == {"u1", "u2"}

\* E-mail addresses are character sequences.
Addr1 == <<"a", "@", "a", ".", "a", "a">>
Addr2 == <<"a", "a", "@", "a", ".", "a", "a">>
Addr3 == <<"a", ".", "a", "@", "a", ".", "a", "a">>
Addresses == {Addr1, Addr2, Addr3}

NoUsername == "<None>"          \* users made by UserAdd have no username
Usernames == {"alice", "bob"}
FullNames == {"", "Alice B"}
GroupSets == {{}, {"admin"}}
Passwords == {"secret1", "secret2"}

Permissions == {"view", "edit", "add"}

Appstructs ==
    [enabled : BOOLEAN, username : Usernames, full_name : FullNames,
     email : Addresses, groups : GroupSets]

GroupIds == {"g1"}

\* The nine admin views of the module, by class.
UserViews == {"UserListing", "UserShow", "UserEdit", "UserAdd", "UserSetPassword"}
GroupViews == {"GroupListing", "GroupShow", "GroupAdd", "GroupEdit"}
Views == UserViews \cup GroupViews

\* What a form submission can be: a plain page load, a POST the form's
\* validation refuses, a POST it accepts.
Submits == {"get", "invalid", "valid"}

-----------------------------------------------------------------------------
(* Authorization *)

\* As view_config_permission, with the set-password page asking for "view" only.
view_config_permission_lax(view) ==
    CASE view = "UserListing" -> "view"
      [] view = "UserShow" -> "view"
      [] view = "UserEdit" -> "edit"
      [] view = "UserSetPassword" -> "view"
      [] view = "GroupShow" -> "view"
      [] view = "GroupAdd" -> "add"
      [] view = "GroupEdit" -> "edit"

\* permission= of the @view_config on each view method.
view_config_permission(view) ==
    CASE view = "UserListing" -> "view"
      [] view = "UserShow" -> "view"
      [] view = "UserEdit" -> "edit"
      [] view = "UserSetPassword" -> "edit"
      [] view = "GroupShow" -> "view"
      [] view = "GroupAdd" -> "add"
      [] view = "GroupEdit" -> "edit"

\* @view_overrides re-registers the view_config of the base class's view
\* method for the new context: admin_views.Add.add asks for "add",
\* admin_views.Listing.listing asks for "view".
view_overrides_permission(view) ==
    CASE view = "UserAdd" -> "add"
      [] view = "GroupListing" -> "view"

\* The classes decorated with @view_overrides carry no view_config of their own.
RequiredPermission(view) ==
    IF view \in {"UserAdd", "GroupListing"}
    THEN view_overrides_permission(view)
    ELSE view_config_permission(view)

\* The authorization layer calls a view only for a principal holding its
\* permission; any other request is answered HTTPForbidden.
Permits(ps, view) == RequiredPermission(view) \in ps

-----------------------------------------------------------------------------
(* Saving and notifying *)

\* UserAuthSensitiveOperation(request, user, kind)
UserAuthSensitiveOperation(u, kind) == [user |-> u, kind |-> kind]

\* registry.notify(e): listeners run synchronously and read the user record
\* as it is in `us` at that moment.
notify(us, es) ==
    [i \in DOMAIN es |->
        [user |-> es[i].user, reason |-> es[i].kind, seen |-> us[es[i].user]]]

\* The save_changes of the CRUD edit view: writes the appstruct's fields to
\* the object.
Edit_save_changes(us, u, appstruct) ==
    [us EXCEPT ![u] =
        [f \in DOMAIN us[u] |->
            IF f \in DOMAIN appstruct THEN appstruct[f] ELSE us[u][f]]]

\* As enabled_changes, taking a change of full_name for one of enabled too.
enabled_changes_full_name(appstruct, user) ==
    appstruct.enabled # user.enabled \/ appstruct.full_name # user.full_name

enabled_changes(appstruct, user) == appstruct.enabled # user.enabled

email_changes(appstruct, user) == appstruct.email # user.email

\* As username_changes, comparing with the wrong attribute of the user.
username_changes_vs_full_name(appstruct, user) == appstruct.username # user.full_name

username_changes(appstruct, user) == appstruct.username # user.username

\* As UserEdit_event, with the branches in the opposite order.
UserEdit_event_reversed(u, enabled_ch, email_ch, username_ch) ==
    IF username_ch THEN <<UserAuthSensitiveOperation(u, "username_change")>>
    ELSE IF email_ch THEN <<UserAuthSensitiveOperation(u, "email_change")>>
    ELSE IF enabled_ch THEN <<UserAuthSensitiveOperation(u, "enabled_change")>>
    ELSE <<>>

\* e = None; if / elif / elif: at most one event.
UserEdit_event(u, enabled_ch, email_ch, username_ch) ==
    IF enabled_ch THEN <<UserAuthSensitiveOperation(u, "enabled_change")>>
    ELSE IF email_ch THEN <<UserAuthSensitiveOperation(u, "email_change")>>
    ELSE IF username_ch THEN <<UserAuthSensitiveOperation(u, "username_change")>>
    ELSE <<>>

\* As UserEdit_save_changes, notifying before the parent's save is applied.
UserEdit_save_changes_notify_first(us, u, appstruct, raises) ==
    LET user == us[u]
        e == UserEdit_event(u, enabled_changes(appstruct, user),
                            email_changes(appstruct, user),
                            username_changes(appstruct, user))
        events == notify(us, e)
    IN  IF raises
        THEN [users |-> us, events |-> events, raised |-> TRUE,
              steps |-> (IF e = <<>> THEN <<>> ELSE <<"notify">>) \o <<"save">>]
        ELSE [users |-> Edit_save_changes(us, u, appstruct), events |-> events,
              raised |-> FALSE,
              steps |-> (IF e = <<>> THEN <<>> ELSE <<"notify">>) \o <<"save">>]

\* As UserEdit_save_changes, without the call of the parent's save.
UserEdit_save_changes_no_save(us, u, appstruct, raises) ==
    LET user == us[u]
        e == UserEdit_event(u, enabled_changes(appstruct, user),
                            email_changes(appstruct, user),
                            username_changes(appstruct, user))
    IN  [users |-> us, events |-> notify(us, e), raised |-> FALSE,
         steps |-> IF e = <<>> THEN <<>> ELSE <<"notify">>]

\* UserEdit.save_changes.  `raises`: the parent's save_changes raises, and
\* the exception leaves this method at the super() call.
UserEdit_save_changes(us, u, appstruct, raises) ==
    LET user == us[u]
        enabled_ch == enabled_changes(appstruct, user)
        email_ch == email_changes(appstruct, user)
        username_ch == username_changes(appstruct, user)
    IN  IF raises
        THEN [users |-> us, events |-> <<>>, raised |-> TRUE, steps |-> <<"save">>]
        ELSE LET saved == Edit_save_changes(us, u, appstruct)
                 e == UserEdit_event(u, enabled_ch, email_ch, username_ch)
             IN  [users |-> saved, events |-> notify(saved, e), raised |-> FALSE,
                  steps |-> IF e = <<>> THEN <<"save">> ELSE <<"save", "notify">>]

\* As UserSetPassword_save_changes, notifying only when the password differs.
UserSetPassword_save_changes_if_differs(us, u, appstruct, raises) ==
    IF raises
    THEN [users |-> us, events |-> <<>>, raised |-> TRUE, steps |-> <<"save">>]
    ELSE LET saved == Edit_save_changes(us, u, appstruct)
             e == IF appstruct.password # us[u].password
                  THEN <<UserAuthSensitiveOperation(u, "password_change")>>
                  ELSE <<>>
         IN  [users |-> saved, events |-> notify(saved, e), raised |-> FALSE,
              steps |-> IF e = <<>> THEN <<"save">> ELSE <<"save", "notify">>]

\* As UserSetPassword_save_changes, notifying before the parent's save is called.
UserSetPassword_save_changes_notify_first(us, u, appstruct, raises) ==
    LET events == notify(us, <<UserAuthSensitiveOperation(u, "password_change")>>)
    IN  IF raises
        THEN [users |-> us, events |-> events, raised |-> TRUE,
              steps |-> <<"notify", "save">>]
        ELSE [users |-> Edit_save_changes(us, u, appstruct), events |-> events,
              raised |-> FALSE, steps |-> <<"notify", "save">>]

\* UserSetPassword.save_changes
UserSetPassword_save_changes(us, u, appstruct, raises) ==
    IF raises
    THEN [users |-> us, events |-> <<>>, raised |-> TRUE, steps |-> <<"save">>]
    ELSE LET saved == Edit_save_changes(us, u, appstruct)
             e == <<UserAuthSensitiveOperation(u, "password_change")>>
         IN  [users |-> saved, events |-> notify(saved, e), raised |-> FALSE,
              steps |-> <<"save", "notify">>]

-----------------------------------------------------------------------------
(* Responses *)

HTTPFound(resource, name) == [status |-> "HTTPFound", resource |-> resource, view |-> name]
Rendered(resource, name) == [status |-> "rendered", resource |-> resource, view |-> name]
HTTPForbidden == [status |-> "HTTPForbidden", resource |-> "", view |-> ""]
ServerError == [status |-> "exception", resource |-> "", view |-> ""]

\* As UserSetPassword_do_success, redirecting to the edit page.
UserSetPassword_do_success_to_edit(u) ==
    [messages |-> <<[kind |-> "success", msg |-> "Password changed.",
                     msg_id |-> "msg-password-changed"]>>,
     response |-> [status |-> "HTTPFound", resource |-> u, view |-> "edit"],
     steps |-> <<"message", "redirect">>]

\* UserSetPassword.do_success
UserSetPassword_do_success(u) ==
    [messages |-> <<[kind |-> "success", msg |-> "Password changed.",
                     msg_id |-> "msg-password-changed"]>>,
     response |-> HTTPFound(u, "show"),
     steps |-> <<"message", "redirect">>]

\* do_success of the CRUD edit view, which UserEdit inherits.
Edit_do_success(u) ==
    [messages |-> <<[kind |-> "success", msg |-> "Changes saved.",
                     msg_id |-> "msg-changes-saved"]>>,
     response |-> HTTPFound(u, "show"),
     steps |-> <<"message", "redirect">>]

\* edit() of the CRUD edit view: on a POST the form accepts, save_changes and
\* then do_success; on a POST it refuses, or a plain load, the form page again.
Edit_edit(us, u, name, submit, save, success) ==
    IF submit = "valid"
    THEN IF save.raised
         THEN [users |-> save.users, events |-> save.events, messages |-> <<>>,
               response |-> ServerError, steps |-> <<"validate">> \o save.steps]
         ELSE [users |-> save.users, events |-> save.events,
               messages |-> success.messages, response |-> success.response,
               steps |-> <<"validate">> \o save.steps \o success.steps]
    ELSE [users |-> us, events |-> <<>>, messages |-> <<>>,
          response |-> Rendered(u, name),
          steps |-> IF submit = "invalid" THEN <<"validate">> ELSE <<>>]

\* UserEdit.edit
UserEdit_edit(us, u, submit, appstruct, raises) ==
    Edit_edit(us, u, "edit", submit,
              UserEdit_save_changes(us, u, appstruct, raises), Edit_do_success(u))

\* UserSetPassword.set_password
UserSetPassword_set_password(us, u, submit, appstruct, raises) ==
    Edit_edit(us, u, "set-password", submit,
              UserSetPassword_save_changes(us, u, appstruct, raises),
              UserSetPassword_do_success(u))

-----------------------------------------------------------------------------
(* Form schemas *)

PASSWORD_MIN_LENGTH == 6

\* Characters the payloads are written in, and the regular expression's classes.
Alphabet == {"a", ".", "@"}
Letters == {"a"}
LocalChars == Letters \cup {".", "_", "%", "+", "-"}
DomainChars == Letters \cup {".", "-"}

StringsUpTo(n, chars) == UNION { [1..k -> chars] : k \in 0..n }

Slice(s, from, to) == [k \in 1..(to - from + 1) |-> s[from + k - 1]]

AllIn(s, chars) == \A k \in DOMAIN s : s[k] \in chars

\* c.Email(): the value must match  ^[A-Z0-9._%+-]+@[A-Z0-9.-]+\.[A-Z]{2,4}$
\* (case-insensitive): a local part, "@", a domain, ".", two to four letters.
Email(value) ==
    IF \E at \in 2..Len(value), dot \in 2..Len(value) :
          /\ at + 1 < dot
          /\ value[at] = "@"
          /\ value[dot] = "."
          /\ AllIn(Slice(value, 1, at - 1), LocalChars)
          /\ AllIn(Slice(value, at + 1, dot - 1), DomainChars)
          /\ Len(value) - dot \in 2..4
          /\ AllIn(Slice(value, dot + 1, Len(value)), Letters)
    THEN {}
    ELSE {"Invalid email address"}

\* unique_email: a user with this e-mail is in the storage already.
unique_email(us, value) ==
    IF \E u \in DOMAIN us : us[u].email = value
    THEN {"Email already exists"}
    ELSE {}

\* c.All(...): every validator runs, the messages of those that fail are joined.
All(msgs1, msgs2) == msgs1 \cup msgs2

\* c.Length(min=...)
Length(min, value) ==
    IF Len(value) < min THEN {"Shorter than minimum length"} ELSE {}

\* A required c.String() node: an empty value is "Required" and the validator
\* is not run.
StringNode(value, msgs) == IF value = <<>> THEN {"Required"} ELSE msgs

\* email = c.SchemaNode(c.String(), validator=c.All(c.Email(), unique_email))
email_node(us, value) ==
    StringNode(value, All(Email(value), unique_email(us, value)))

\* As password_node, with a minimum one character too long.
password_node_off_by_one(value) ==
    StringNode(value, Length(PASSWORD_MIN_LENGTH + 1, value))

\* password = c.SchemaNode(c.String(), validator=c.Length(min=PASSWORD_MIN_LENGTH))
password_node(value) ==
    StringNode(value, Length(PASSWORD_MIN_LENGTH, value))

\* CSRFSchema: the token of the payload must be the session's.
csrf_node(p) == IF p.csrf_ok THEN {} ELSE {"Invalid CSRF token"}

\* deform.widget.CheckedPasswordWidget: the two entries must be the same.
CheckedPasswordWidget(p) ==
    IF p.password # p.confirm THEN {"Password did not match confirm"} ELSE {}

Errors(field, msgs) == { <<field, m>> : m \in msgs }

RegisterSchema(us, p) ==
    [schema |-> "RegisterSchema",
     errors |-> Errors("csrf_token", csrf_node(p))
                \cup Errors("email", email_node(us, p.email))
                \cup Errors("password", password_node(p.password))
                \cup Errors("password", CheckedPasswordWidget(p))]

\* The login form's password widget is a plain PasswordWidget.
LoginSchema(us, p) ==
    [schema |-> "LoginSchema",
     errors |-> Errors("csrf_token", csrf_node(p))
                \cup Errors("email", email_node(us, p.email))
                \cup Errors("password", password_node(p.password))]

-----------------------------------------------------------------------------
(* Requests *)

NoResult == [schema |-> "none", errors |-> {}]
NoPayload == [email |-> <<>>, password |-> <<>>, confirm |-> <<>>, csrf_ok |-> TRUE]

\* User tables a behaviour starts from.  u2 is a user as UserAdd makes them,
\* or one that has been given a username since.
InitUsers ==
    { [u \in UserIds |->
        IF u = "u1"
        THEN [enabled |-> en, username |-> "alice", full_name |-> "Alice B",
              email |-> Addr1, groups |-> {"admin"}, password |-> "secret1"]
        ELSE [enabled |-> FALSE, username |-> un, full_name |-> "",
              email |-> Addr2, groups |-> {}, password |-> "secret2"]]
      : en \in BOOLEAN, un \in {NoUsername, "bob"} }

\* Any principal, whatever the authorization policy grants them.
Init ==
    /\ users \in InitUsers
    /\ perms \in SUBSET Permissions
    /\ log = <<>>
    /\ payload = NoPayload
    /\ result = NoResult

\* The user table holds no two users with one e-mail address; a submission
\* that would give it two is refused by the storage and is left out here.
KeepsEmailUnique(u, appstruct) ==
    \A o \in UserIds \ {u} : users[o].email # appstruct.email

Entry(view, ctx, submit, appstruct, before, raises, out) ==
    [view |-> view, context |-> ctx, ran |-> TRUE, submit |-> submit,
     appstruct |-> appstruct, before |-> before, raises |-> raises,
     events |-> out.events, messages |-> out.messages,
     response |-> out.response, steps |-> out.steps]

\* A request for a view the principal has no permission for: the view is not run.
Forbidden(view) ==
    /\ ~Permits(perms, view)
    /\ log' = Append(log, [view |-> view, ran |-> FALSE, response |-> HTTPForbidden,
                           events |-> <<>>, messages |-> <<>>, steps |-> <<>>])
    /\ UNCHANGED <<users, perms, payload, result>>

\* POST to the user's edit page, accepted by the form.
UserEditSubmit(u, appstruct, raises) ==
    /\ Permits(perms, "UserEdit")
    /\ KeepsEmailUnique(u, appstruct)
    /\ LET out == UserEdit_edit(users, u, "valid", appstruct, raises)
       IN  /\ users' = out.users
           /\ log' = Append(log, Entry("UserEdit", u, "valid", appstruct,
                                       users[u], raises, out))
    /\ UNCHANGED <<perms, payload, result>>

\* The user's edit page loaded, or a POST the form refuses.
UserEditForm(u, submit) ==
    /\ Permits(perms, "UserEdit")
    /\ submit # "valid"
    /\ LET out == UserEdit_edit(users, u, submit, << >>, FALSE)
       IN  /\ users' = out.users
           /\ log' = Append(log, Entry("UserEdit", u, submit, << >>,
                                       users[u], FALSE, out))
    /\ UNCHANGED <<perms, payload, result>>

\* POST to the user's set-password page, accepted by the form.
SetPasswordSubmit(u, password, raises) ==
    /\ Permits(perms, "UserSetPassword")
    /\ LET appstruct == [password |-> password]
           out == UserSetPassword_set_password(users, u, "valid", appstruct, raises)
       IN  /\ users' = out.users
           /\ log' = Append(log, Entry("UserSetPassword", u, "valid", appstruct,
                                       users[u], raises, out))
    /\ UNCHANGED <<perms, payload, result>>

\* The set-password page loaded, or a POST the form refuses.
SetPasswordForm(u, submit) ==
    /\ Permits(perms, "UserSetPassword")
    /\ submit # "valid"
    /\ LET out == UserSetPassword_set_password(users, u, submit, << >>, FALSE)
       IN  /\ users' = out.users
           /\ log' = Append(log, Entry("UserSetPassword", u, submit, << >>,
                                       users[u], FALSE, out))
    /\ UNCHANGED <<perms, payload, result>>

\* The views whose handlers are the CRUD base classes' own: listing, show and
\* add pages, and the group edit page.
ContextsOf(view) ==
    CASE view \in {"UserListing", "UserAdd"} -> {"UserAdmin"}
      [] view = "UserShow" -> UserIds
      [] view \in {"GroupListing", "GroupAdd"} -> {"GroupAdmin"}
      [] view \in {"GroupShow", "GroupEdit"} -> GroupIds
      [] OTHER -> {}

PageView(view, ctx) ==
    /\ view \in Views \ {"UserEdit", "UserSetPassword"}
    /\ ctx \in ContextsOf(view)
    /\ Permits(perms, view)
    /\ log' = Append(log, [view |-> view, context |-> ctx, ran |-> TRUE,
                           submit |-> "get", response |-> Rendered(ctx, view),
                           events |-> <<>>, messages |-> <<>>, steps |-> <<>>])
    /\ UNCHANGED <<users, perms, payload, result>>

Within(n) == Len(log) < n

Next ==
    \/ \E view \in Views : Within(MaxRequests) /\ Forbidden(view)
    \/ \E u \in UserIds, a \in Appstructs, raises \in BOOLEAN :
          Within(MaxRequests) /\ UserEditSubmit(u, a, raises)
    \/ \E u \in UserIds, submit \in Submits :
          Within(MaxRequests) /\ UserEditForm(u, submit)
    \/ \E u \in UserIds, p \in Passwords, raises \in BOOLEAN :
          Within(MaxRequests) /\ SetPasswordSubmit(u, p, raises)
    \/ \E u \in UserIds, submit \in Submits :
          Within(MaxRequests) /\ SetPasswordForm(u, submit)
    \/ \E view \in Views : \E ctx \in ContextsOf(view) :
          Within(MaxRequests) /\ PageView(view, ctx)

Spec == Init /\ [][Next]_vars

\* Behaviours of user edits only, by a principal who may edit: submissions
\* that touch enabled, email and username and leave the other fields as stored.
InitEdits ==
    /\ users \in InitUsers
    /\ perms = Permissions
    /\ log = <<>>
    /\ payload = NoPayload
    /\ result = NoResult

SensitiveEdits(u) ==
    { a \in Appstructs :
        /\ a.full_name = users[u].full_name
        /\ a.groups = users[u].groups }

NextEdits ==
    \E u \in UserIds : \E a \in SensitiveEdits(u), raises \in BOOLEAN :
        Within(MaxEdits) /\ UserEditSubmit(u, a, raises)

SpecEdits == InitEdits /\ [][NextEdits]_vars

\* Payloads handed to the schemas: any e-mail string and any password up to
\* the bounds, the password repeated rightly or wrongly, the token right or wrong.
Payloads ==
    { [email |-> e, password |-> pw, confirm |-> cf, csrf_ok |-> ok] :
        e \in StringsUpTo(MaxEmailLen, Alphabet),
        pw \in StringsUpTo(MaxPasswordLen, {"x"}),
        cf \in {<<>>, <<"x">>},
        ok \in BOOLEAN }

InitSchema ==
    /\ users \in { t \in InitUsers : t["u1"].enabled /\ t["u2"].username = NoUsername }
    /\ perms = {}
    /\ log = <<>>
    /\ \E p \in Payloads :
          payload = [p EXCEPT !.confirm = p.password \o p.confirm]
    /\ result = NoResult

\* The registration form is submitted.
Register ==
    /\ result = NoResult
    /\ result' = RegisterSchema(users, payload)
    /\ UNCHANGED <<users, perms, log, payload>>

\* The login form is submitted.
Login ==
    /\ result = NoResult
    /\ result' = LoginSchema(users, payload)
    /\ UNCHANGED <<users, perms, log, payload>>

NextSchema == Register \/ Login

SpecSchema == InitSchema /\ [][NextSchema]_vars

-----------------------------------------------------------------------------
(* Properties *)

Sensitive == {"enabled", "email", "username"}

\* The sensitive fields whose submitted value differs from the stored one.
Changed(e) == { f \in Sensitive : e.appstruct[f] # e.before[f] }

TagOf(f) ==
    CASE f = "enabled" -> "enabled_change"
      [] f = "email" -> "email_change"
      [] f = "username" -> "username_change"

\* Log entries of a save_changes that returned.
EditSaved(e) ==
    e.view = "UserEdit" /\ e.ran /\ e.submit = "valid" /\ ~e.raises

PasswordSaved(e) ==
    e.view = "UserSetPassword" /\ e.ran /\ e.submit = "valid" /\ ~e.raises

\* C1: a successful UserEdit.save_changes whose submission differs from the
\* stored user in exactly one of enabled, email, username notifies exactly one
\* event, for the edited user, with the tag of that field; one that differs in
\* none of the three notifies no event.
C1_OneChangeOneEvent ==
    \A i \in DOMAIN log :
        EditSaved(log[i]) =>
            /\ \A f \in Sensitive :
                  Changed(log[i]) = {f} =>
                      /\ Len(log[i].events) = 1
                      /\ log[i].events[1].user = log[i].context
                      /\ log[i].events[1].reason = TagOf(f)
            /\ Changed(log[i]) = {} => log[i].events = <<>>

C1_Witness ==
    \E i \in DOMAIN log :
        /\ EditSaved(log[i])
        /\ Changed(log[i]) = {"username"}
        /\ log[i].context = "u2"
        /\ Len(log[i].events) = 1

\* C2: a successful UserEdit.save_changes whose submission changes two or
\* three of enabled, email, username notifies exactly one event, tagged with
\* the first changed field in the order enabled, email, username; the tag is
\* "username_change" only when username alone changed.
C2_FirstMatchWins ==
    \A i \in DOMAIN log :
        (EditSaved(log[i]) /\ Cardinality(Changed(log[i])) >= 2) =>
            /\ Len(log[i].events) = 1
            /\ "enabled" \in Changed(log[i]) =>
                  log[i].events[1].reason = "enabled_change"
            /\ "enabled" \notin Changed(log[i]) =>
                  log[i].events[1].reason = "email_change"
            /\ log[i].events[1].reason # "username_change"

C2_Witness ==
    \E i \in DOMAIN log :
        /\ EditSaved(log[i])
        /\ Changed(log[i]) = {"email", "username"}
        /\ log[i].events[1].reason = "email_change"

\* C3: every successful UserSetPassword.save_changes notifies exactly one
\* event, with reason "password_change", for the user whose password was set,
\* also when the password submitted is the current one.
C3_PasswordAlwaysNotifies ==
    \A i \in DOMAIN log :
        PasswordSaved(log[i]) =>
            /\ Len(log[i].events) = 1
            /\ log[i].events[1].user = log[i].context
            /\ log[i].events[1].reason = "password_change"

C3_Witness ==
    \E i \in DOMAIN log :
        /\ PasswordSaved(log[i])
        /\ log[i].appstruct.password = log[i].before.password
        /\ Len(log[i].events) = 1

IndexOf(seq, x) == CHOOSE k \in DOMAIN seq : seq[k] = x

C5_SchemasReject ==
    result.schema \in {"RegisterSchema", "LoginSchema"} =>
        /\ Email(payload.email) # {} =>
              \E e \in result.errors : e[1] = "email"
        /\ (\E u \in UserIds : users[u].email = payload.email) =>
              \E e \in result.errors : e[1] = "email"
        /\ Len(payload.password) < 6 =>
              \E e \in result.errors : e[1] = "password"
        /\ Len(payload.password) = 6 =>
              <<"password", "Shorter than minimum length">> \notin result.errors

C5_Witness ==
    /\ result.schema = "LoginSchema"
    /\ \E u \in UserIds : users[u].email = payload.email
    /\ Len(payload.password) = 6
    /\ result.errors = {<<"email", "Email already exists">>}

\* The permission each view asks for.
PermissionOf(view) ==
    CASE view \in {"UserListing", "UserShow", "GroupListing", "GroupShow"} -> "view"
      [] view \in {"UserEdit", "UserSetPassword", "GroupEdit"} -> "edit"
      [] view \in {"UserAdd", "GroupAdd"} -> "add"

\* C6: every admin view asks for a permission and is never run for a request
\* without it: listing and show ask for "view", user edit, set-password and
\* group edit for "edit", user add and group add for "add".
C6_ViewsNeedPermission ==
    /\ \A view \in Views : RequiredPermission(view) = PermissionOf(view)
    /\ \A i \in DOMAIN log :
          /\ log[i].ran => PermissionOf(log[i].view) \in perms
          /\ PermissionOf(log[i].view) \notin perms =>
                /\ log[i].response.status = "HTTPForbidden"
                /\ log[i].events = <<>>

C6_Witness ==
    /\ perms = {"view", "add"}
    /\ \E i \in DOMAIN log :
          log[i].view = "UserSetPassword" /\ ~log[i].ran

\* C7: in UserEdit.save_changes the event reaches its listeners after the
\* save: the user record a listener reads holds the submitted enabled, email
\* and username, and the reason is the one the difference to the values
\* before the save gives.
C7_NotifiedAfterSave ==
    \A i \in DOMAIN log :
        EditSaved(log[i]) =>
            /\ Changed(log[i]) # {} => log[i].events # <<>>
            /\ \A k \in DOMAIN log[i].events :
                  /\ \A f \in Sensitive :
                        log[i].events[k].seen[f] = log[i].appstruct[f]
                  /\ \E f \in Changed(log[i]) :
                        log[i].events[k].reason = TagOf(f)
                  /\ IndexOf(log[i].steps, "save") < IndexOf(log[i].steps, "notify")

C7_Witness ==
    \E i \in DOMAIN log :
        /\ EditSaved(log[i])
        /\ Changed(log[i]) = Sensitive
        /\ Len(log[i].events) = 1
        /\ log[i].events[1].seen.email = log[i].appstruct.email
        /\ log[i].events[1].seen.email # log[i].before.email

\* C8: a successful UserEdit.save_changes whose submission changes full_name
\* or the groups, or both, and none of enabled, email, username notifies no
\* event.
C8_OtherFieldsNoEvent ==
    \A i \in DOMAIN log :
        ( /\ EditSaved(log[i])
          /\ Changed(log[i]) = {}
          /\ \/ log[i].appstruct.full_name # log[i].before.full_name
             \/ log[i].appstruct.groups # log[i].before.groups ) =>
            log[i].events = <<>>

C8_Witness ==
    \E i \in DOMAIN log :
        /\ EditSaved(log[i])
        /\ Changed(log[i]) = {}
        /\ log[i].appstruct.full_name # log[i].before.full_name
        /\ log[i].appstruct.groups # log[i].before.groups
        /\ users[log[i].context].full_name = log[i].appstruct.full_name
        /\ log[i].events = <<>>

\* C9: when the parent's save_changes raises in UserEdit.save_changes or in
\* UserSetPassword.save_changes, no event is notified for that submission.
C9_FailedSaveNoEvent ==
    \A i \in DOMAIN log :
        ( /\ log[i].view \in {"UserEdit", "UserSetPassword"}
          /\ log[i].ran
          /\ log[i].submit = "valid"
          /\ log[i].raises ) =>
            log[i].events = <<>>

C9_Witness ==
    \E i \in DOMAIN log :
        /\ log[i].view = "UserEdit"
        /\ log[i].ran
        /\ log[i].submit = "valid"
        /\ log[i].raises
        /\ Changed(log[i]) # {}
        /\ log[i].response.status = "exception"

SameSensitive(a, b) == \A f \in Sensitive : a[f] = b[f]

\* C10: the same enabled, email and username submitted again directly after
\* a successful save of them notifies no event; a field changed from A to B
\* by one successful save and back from B to A by the next notifies two
\* events, one in each save.
C10_ComparedWithLastSave ==
    \A i \in DOMAIN log :
        ( /\ i + 1 \in DOMAIN log
          /\ EditSaved(log[i])
          /\ EditSaved(log[i + 1])
          /\ log[i].context = log[i + 1].context ) =>
            /\ SameSensitive(log[i].appstruct, log[i + 1].appstruct) =>
                  log[i + 1].events = <<>>
            /\ (\E f \in Sensitive :
                    /\ log[i].appstruct[f] # log[i].before[f]
                    /\ log[i + 1].appstruct[f] = log[i].before[f]) =>
                  /\ Len(log[i].events) = 1
                  /\ Len(log[i + 1].events) = 1

C10_Witness ==
    /\ Len(log) = 2
    /\ EditSaved(log[1])
    /\ EditSaved(log[2])
    /\ log[1].context = log[2].context
    /\ log[1].appstruct.email # log[1].before.email
    /\ log[2].appstruct.email = log[1].before.email
    /\ Len(log[1].events) = 1
    /\ Len(log[2].events) = 1

====
